---- MODULE Spec2Model ----
(***************************************************************************)
(* Model of src/download/exchangeDownloader.ts: the Exchange downloader.   *)
(*                                                                         *)
(* Two specifications share this module.                                   *)
(*   SpecDownload : downloadRestApis / downloadRestApi, the promises they  *)
(*                  create, the file system and the logger.                *)
(*   SpecRegistry : getAsset, getVersionByDeployment, getSpecificApi and   *)
(*                  searchExchange against the registry.                   *)
(*                                                                         *)
(* JavaScript values: `undefined` is the string Undefined, an optional     *)
(* object is a sequence of length 0 or 1, a byte buffer is a tuple.        *)
(* Node runs promise reactions (microtasks) before the next I/O event, so  *)
(* the I/O actions are disabled while a reaction of Promise.all is due.    *)
(***************************************************************************)
EXTENDS Integers, Sequences, FiniteSets, TLC

\* ---------------------------------------------------------------- bounds
MaxApis == 2
MaxFiles == 2
MaxInstances == 2
MaxResults == 2

\* ------------------------------------------------------------ JS values
Undefined == "<undefined>"

Falsy(v) == v \in {Undefined, ""}

Truthy(v) == ~Falsy(v)

\* --------------------------------------------------------- input domains
DEFAULT_DOWNLOAD_FOLDER == "download"

Folders == {DEFAULT_DOWNLOAD_FOLDER, "out"}

Ids == {Undefined, "", "id1"}

AssetIds == {"a", "b"}

Links == {"u1", "u2"}

FatRamls == {<<>>} \cup {<<[classifier |-> "fat-raml", externalLink |-> l]>> : l \in Links}

RestApis == [id : Ids, assetId : AssetIds, fatRaml : FatRamls]

RECURSIVE SeqsUpTo(_, _)
SeqsUpTo(S, n) ==
  IF n = 0 THEN {<<>>}
  ELSE LET shorter == SeqsUpTo(S, n - 1)
       IN  shorter \cup {Append(s, x) : s \in {t \in shorter : Len(t) = n - 1}, x \in S}

Statuses == {200, 404}

Ok(status) == status >= 200 /\ status <= 299

\* the bytes the server sends for the request of download i
Body(i, status) == <<i, status>>

NoFile == <<>>

OldContent == <<0, 0>>

Paths == Folders \X AssetIds

\* file systems the program may start in: nothing there, or earlier archives
InitialFileSystems ==
  { [dirs |-> {}, files |-> [p \in Paths |-> NoFile]],
    [dirs |-> Folders, files |-> [p \in Paths |-> IF p[2] = "a" THEN OldContent ELSE NoFile]] }

VARIABLES
  restApi, destinationFolder,   \* arguments of downloadRestApis
  pc,                           \* position of each downloadRestApi call
  response,                     \* response of each download's fetch: <<>> or <<status>>
  aggregate, aggregateValue,    \* the promise downloadRestApis returned
  files, dirs, files0, dirs0,   \* file system (files0, dirs0: as it was before the call)
  warned, requested, ensured, wrote   \* per download: warnings, requests, mkdir, writes

dvars == <<restApi, destinationFolder, pc, response, aggregate, aggregateValue,
           files, dirs, files0, dirs0, warned, requested, ensured, wrote>>

VARIABLES
  op,         \* the call in progress: its name and arguments
  rpc,        \* "idle", "awaitFetch" (request sent, no reply yet) or "done"
  reply,      \* what the registry answered to the call's request
  result,     \* what the call returned / its promise settled with
  requests,   \* requests the call has issued
  warns,      \* warnings the call has logged
  lastIndex   \* lastIndex of each RegExp object the caller holds

rvars == <<op, rpc, reply, result, requests, warns, lastIndex>>

vars == <<dvars, rvars>>

\* ------------------------------------------------------ downloadRestApi
zipFilePath(folder, api) == <<folder, api.assetId>>

\* downloadRestApi without the early return of the missing-id branch
downloadRestApiStart_noReturn(api) ==
  IF api.fatRaml = <<>>
  THEN [pc |-> "rejected", warned |-> IF Falsy(api.id) THEN 1 ELSE 0, ensured |-> TRUE,
        requested |-> 0]
  ELSE [pc |-> "awaitFetch", warned |-> IF Falsy(api.id) THEN 1 ELSE 0, ensured |-> TRUE,
        requested |-> 1]

\* downloadRestApi skipping a descriptor without fatRaml as it skips one without id
downloadRestApiStart_skipNoFatRaml(api) ==
  IF Falsy(api.id) \/ api.fatRaml = <<>>
  THEN [pc |-> "resolved", warned |-> 1, ensured |-> FALSE, requested |-> 0]
  ELSE [pc |-> "awaitFetch", warned |-> 0, ensured |-> TRUE, requested |-> 1]

\* the synchronous part of downloadRestApi, up to its first await
downloadRestApiStart(api) ==
  IF Falsy(api.id)
  THEN [pc |-> "resolved", warned |-> 1, ensured |-> FALSE, requested |-> 0]
  ELSE IF api.fatRaml = <<>>
       THEN [pc |-> "rejected", warned |-> 0, ensured |-> TRUE, requested |-> 0]
       ELSE [pc |-> "awaitFetch", warned |-> 0, ensured |-> TRUE, requested |-> 1]

ensureDirSync(ds, folder) == ds \cup {folder}

\* writeFileSync with the flag "wx": an existing file is kept
writeFileSync_keepExisting(fs, path, data) ==
  IF fs[path] = NoFile THEN [fs EXCEPT ![path] = data] ELSE fs

writeFileSync(fs, path, data) == [fs EXCEPT ![path] = data]

Tasks == 1 .. Len(restApi)

Settled(i) == pc[i] \in {"resolved", "rejected"}

\* Promise.race in the place of Promise.all: settles with the first promise that settles
PromiseAll_race(pcs) ==
  IF \E i \in DOMAIN pcs : pcs[i] = "rejected" THEN "rejected"
  ELSE IF DOMAIN pcs = {} \/ \E i \in DOMAIN pcs : pcs[i] = "resolved" THEN "resolved"
  ELSE "pending"

\* what Promise.all does with the promises' states: "pending", "rejected" or "resolved"
PromiseAll(pcs) ==
  IF \E i \in DOMAIN pcs : pcs[i] = "rejected" THEN "rejected"
  ELSE IF \A i \in DOMAIN pcs : pcs[i] = "resolved" THEN "resolved"
  ELSE "pending"

ReactionDue == aggregate = "pending" /\ PromiseAll(pc) # "pending"

DInit ==
  /\ restApi = <<>>
  /\ destinationFolder = DEFAULT_DOWNLOAD_FOLDER
  /\ pc = <<>>
  /\ response = <<>>
  /\ aggregate = "idle"
  /\ aggregateValue = <<>>
  /\ \E fs \in InitialFileSystems : 
       files = fs.files /\ dirs = fs.dirs /\ files0 = fs.files /\ dirs0 = fs.dirs
  /\ warned = <<>>
  /\ requested = <<>>
  /\ ensured = <<>>
  /\ wrote = <<>>

downloadRestApis ==
  /\ aggregate = "idle"
  /\ \E apis \in SeqsUpTo(RestApis, MaxApis), folder \in Folders :
       LET started == [i \in DOMAIN apis |-> downloadRestApiStart(apis[i])]
       IN  /\ restApi' = apis
           /\ destinationFolder' = folder
           /\ pc' = [i \in DOMAIN apis |-> started[i].pc]
           /\ warned' = [i \in DOMAIN apis |-> started[i].warned]
           /\ ensured' = [i \in DOMAIN apis |-> started[i].ensured]
           /\ requested' = [i \in DOMAIN apis |-> started[i].requested]
           /\ dirs' = IF \E i \in DOMAIN apis : started[i].ensured
                      THEN ensureDirSync(dirs, folder) ELSE dirs
           /\ response' = [i \in DOMAIN apis |-> <<>>]
           /\ wrote' = [i \in DOMAIN apis |-> {}]
  /\ aggregate' = "pending"
  /\ UNCHANGED <<aggregateValue, files, files0, dirs0>>
  /\ UNCHANGED rvars

FetchResolve(i) ==
  /\ ~ReactionDue
  /\ pc[i] = "awaitFetch"
  /\ \E status \in Statuses : response' = [response EXCEPT ![i] = <<status>>]
  /\ pc' = [pc EXCEPT ![i] = "awaitBody"]
  /\ UNCHANGED <<restApi, destinationFolder, aggregate, aggregateValue, files, dirs,
                 files0, dirs0, warned, requested, ensured, wrote>>
  /\ UNCHANGED rvars

FetchReject(i) ==
  /\ ~ReactionDue
  /\ pc[i] = "awaitFetch"
  /\ pc' = [pc EXCEPT ![i] = "rejected"]
  /\ UNCHANGED <<restApi, destinationFolder, response, aggregate, aggregateValue, files,
                 dirs, files0, dirs0, warned, requested, ensured, wrote>>
  /\ UNCHANGED rvars

BodyResolve(i) ==
  /\ ~ReactionDue
  /\ pc[i] = "awaitBody"
  /\ LET path == zipFilePath(destinationFolder, restApi[i])
     IN  /\ files' = writeFileSync(files, path, Body(i, response[i][1]))
         /\ wrote' = [wrote EXCEPT ![i] = @ \cup {path}]
  /\ pc' = [pc EXCEPT ![i] = "resolved"]
  /\ UNCHANGED <<restApi, destinationFolder, response, aggregate, aggregateValue, dirs,
                 files0, dirs0, warned, requested, ensured>>
  /\ UNCHANGED rvars

BodyReject(i) ==
  /\ ~ReactionDue
  /\ pc[i] = "awaitBody"
  /\ pc' = [pc EXCEPT ![i] = "rejected"]
  /\ UNCHANGED <<restApi, destinationFolder, response, aggregate, aggregateValue, files,
                 dirs, files0, dirs0, warned, requested, ensured, wrote>>
  /\ UNCHANGED rvars

PromiseAllSettle ==
  /\ ReactionDue
  /\ aggregate' = PromiseAll(pc)
  /\ aggregateValue' = IF PromiseAll(pc) = "resolved" THEN <<destinationFolder>> ELSE <<>>
  /\ UNCHANGED <<restApi, destinationFolder, pc, response, files, dirs, files0, dirs0, warned,
                 requested, ensured, wrote>>
  /\ UNCHANGED rvars

DNext ==
  \/ downloadRestApis
  \/ \E i \in Tasks : FetchResolve(i)
  \/ \E i \in Tasks : FetchReject(i)
  \/ \E i \in Tasks : BodyResolve(i)
  \/ \E i \in Tasks : BodyReject(i)
  \/ PromiseAllSettle

\* ================================================================ registry
GroupId == "g1"

Versions == {"", "1.0.0", "2.0.0"}

\* environment names are character sequences; <<>> is the empty string
EnvNames == {<<>>, <<"p">>, <<"s">>, <<"s", "p">>}

\* the patterns /p/, /^p/, /p/g and /^p/g
RegExps == [char : {"p"}, anchored : BOOLEAN, global : BOOLEAN]

Instances == [environmentName : EnvNames, version : Versions]

Classifiers == {"fat-raml", "raml"}

\* a files list; the externalLink of each entry is its position in the list
FilesOf(cs) == [k \in DOMAIN cs |-> [classifier |-> cs[k], externalLink |-> k]]

FileLists == {FilesOf(cs) : cs \in SeqsUpTo(Classifiers, MaxFiles)}

NoCategories == <<>>

SomeCategories ==
  << [key |-> "k1", value |-> "v1"], [key |-> "k2", value |-> "v2"], [key |-> "k1", value |-> "v3"] >>

\* asset objects as getVersionByDeployment reads them
VersionBodies ==
  [id : {"id1"}, assetId : {"a"}, version : Versions, categories : {NoCategories},
   files : {<<>>}, instances : SeqsUpTo(Instances, MaxInstances)]

\* asset objects as convertResponseToRestApi reads them
ApiBodies ==
  [id : {"id1"}, assetId : AssetIds, version : {"1.0.0"}, categories : {SomeCategories},
   files : FileLists, instances : {<<>>}]

SpecificBodies ==
  [id : {Undefined, "id1"}, assetId : {"a"}, version : {"1.0.0"},
   categories : {NoCategories, SomeCategories}, files : FileLists, instances : {<<>>}]

NoReply == [kind |-> "none", body |-> <<>>]

NoResult == [kind |-> "pending", value |-> <<>>]

NoOp == [name |-> "none", path |-> <<>>, re |-> [char |-> "p", anchored |-> FALSE, global |-> FALSE],
         version |-> ""]

\* ------------------------------------------------------------ pure code
mapCategories(categories) ==
  LET keys == {categories[k].key : k \in DOMAIN categories}
      last(key) == CHOOSE k \in DOMAIN categories :
                     /\ categories[k].key = key
                     /\ \A m \in DOMAIN categories : categories[m].key = key => m <= k
  IN  [key \in keys |-> categories[last(key)].value]

RECURSIVE getFileByClassifierFrom(_, _, _, _)
getFileByClassifierFrom(fs, classifier, k, myFile) ==
  IF k > Len(fs) THEN myFile
  ELSE getFileByClassifierFrom(fs, classifier, k + 1,
         IF fs[k].classifier = classifier
         THEN <<[classifier |-> fs[k].classifier, externalLink |-> fs[k].externalLink]>>
         ELSE myFile)

\* getFileByClassifier keeping the first match
getFileByClassifier_firstWins(fs, classifier) ==
  LET hits == {k \in DOMAIN fs : fs[k].classifier = classifier}
      first == CHOOSE k \in hits : \A m \in hits : k <= m
  IN  IF hits = {} THEN <<>>
      ELSE <<[classifier |-> fs[first].classifier, externalLink |-> fs[first].externalLink]>>

getFileByClassifier(fs, classifier) == getFileByClassifierFrom(fs, classifier, 1, <<>>)

convertResponseToRestApi(apiResponse) ==
  [id |-> apiResponse.id,
   assetId |-> apiResponse.assetId,
   version |-> apiResponse.version,
   categories |-> mapCategories(apiResponse.categories),
   fatRaml |-> getFileByClassifier(apiResponse.files, "fat-raml")]

\* RegExp.prototype.test: the result and the lastIndex it leaves behind
RegExpTest(re, li, str) ==
  LET start == IF re.global THEN li ELSE 0
      hits == {k \in start .. Len(str) - 1 :
                 str[k + 1] = re.char /\ (re.anchored => k = 0)}
      first == CHOOSE k \in hits : \A m \in hits : k <= m
  IN  IF hits = {}
      THEN [matched |-> FALSE, lastIndex |-> IF re.global THEN 0 ELSE li]
      ELSE [matched |-> TRUE, lastIndex |-> IF re.global THEN first + 1 ELSE li]

\* the forEach of getVersionByDeployment from instance k on
RECURSIVE scanInstances(_, _, _, _, _)
scanInstances(instances, re, k, li, version) ==
  IF k > Len(instances) THEN [version |-> version, lastIndex |-> li]
  ELSE IF Len(instances[k].environmentName) = 0
       THEN scanInstances(instances, re, k + 1, li, version)
       ELSE LET t == RegExpTest(re, li, instances[k].environmentName)
            IN  scanInstances(instances, re, k + 1, t.lastIndex,
                  IF t.matched /\ Falsy(version) THEN instances[k].version ELSE version)

\* getAsset without the return after the warning: it goes on to res.json()
getAsset_noReturn(r) ==
  IF r.kind = "networkError" THEN [result |-> [kind |-> "error", value |-> <<>>], warns |-> 0]
  ELSE IF r.kind = "nonOK" THEN [result |-> [kind |-> "error", value |-> <<>>], warns |-> 1]
  ELSE IF r.kind = "okBadJson" THEN [result |-> [kind |-> "error", value |-> <<>>], warns |-> 0]
  ELSE [result |-> [kind |-> "value", value |-> r.body], warns |-> 0]

\* getAsset once its fetch has settled with reply r
getAsset(r) ==
  IF r.kind = "networkError" THEN [result |-> [kind |-> "error", value |-> <<>>], warns |-> 0]
  ELSE IF r.kind = "nonOK" THEN [result |-> [kind |-> "undefined", value |-> <<>>], warns |-> 1]
  ELSE IF r.kind = "okBadJson" THEN [result |-> [kind |-> "error", value |-> <<>>], warns |-> 0]
  ELSE [result |-> [kind |-> "value", value |-> r.body], warns |-> 0]

\* getVersionByDeployment once getAsset has settled with asset
getVersionByDeployment(asset, re, li) ==
  IF asset.kind = "error" THEN [result |-> asset, lastIndex |-> li]
  ELSE IF asset.kind = "undefined"
       THEN [result |-> [kind |-> "undefined", value |-> <<>>], lastIndex |-> li]
       ELSE LET scan == scanInstances(asset.value.instances, re, 1, li, Undefined)
            IN  [result |-> [kind |-> "value",
                             value |-> IF Truthy(scan.version) THEN scan.version
                                       ELSE asset.value.version],
                 lastIndex |-> scan.lastIndex]

\* the then-callback of getSpecificApi
getSpecificApiThen(asset) ==
  IF asset.kind = "error" THEN asset
  ELSE IF asset.kind = "undefined" THEN [kind |-> "null", value |-> <<>>]
  ELSE [kind |-> "value", value |-> convertResponseToRestApi(asset.value)]

\* getSpecificApi without the test of version
getSpecificApiFetches_always(version) == TRUE

\* does getSpecificApi call getAsset for this version argument
getSpecificApiFetches(version) == Truthy(version)

\* searchExchange once its fetch has settled with reply r
searchExchange(r) ==
  IF r.kind # "ok" THEN [kind |-> "error", value |-> <<>>]
  ELSE [kind |-> "value",
        value |-> [k \in DOMAIN r.body |-> convertResponseToRestApi(r.body[k])]]

\* -------------------------------------------------------------- actions
RInit ==
  /\ op = NoOp
  /\ rpc = "idle"
  /\ reply = NoReply
  /\ result = NoResult
  /\ requests = <<>>
  /\ warns = 0
  /\ lastIndex = [re \in RegExps |-> 0]

getAssetCall ==
  /\ rpc \in {"idle", "done"}
  /\ \E path \in {<<GroupId>>, <<GroupId, "a">>, <<GroupId, "a", "1.0.0">>} :
       /\ op' = [NoOp EXCEPT !.name = "getAsset", !.path = path]
       /\ requests' = << <<"assets", path>> >>
  /\ rpc' = "awaitFetch"
  /\ reply' = NoReply
  /\ result' = NoResult
  /\ warns' = 0
  /\ UNCHANGED lastIndex
  /\ UNCHANGED dvars

getVersionByDeploymentCall ==
  /\ rpc \in {"idle", "done"}
  /\ \E re \in RegExps :
       /\ op' = [NoOp EXCEPT !.name = "getVersionByDeployment", !.path = <<GroupId, "a">>, !.re = re]
       /\ requests' = << <<"assets", <<GroupId, "a">> >> >>
  /\ rpc' = "awaitFetch"
  /\ reply' = NoReply
  /\ result' = NoResult
  /\ warns' = 0
  /\ UNCHANGED lastIndex
  /\ UNCHANGED dvars

getSpecificApiCall ==
  /\ rpc \in {"idle", "done"}
  /\ \E version \in {Undefined, "", "1.0.0"} :
       /\ op' = [NoOp EXCEPT !.name = "getSpecificApi", !.path = <<GroupId, "a", version>>,
                             !.version = version]
       /\ IF getSpecificApiFetches(version)
          THEN /\ requests' = << <<"assets", <<GroupId, "a", version>> >> >>
               /\ rpc' = "awaitFetch"
               /\ result' = NoResult
          ELSE /\ requests' = <<>>
               /\ rpc' = "done"
               /\ result' = [kind |-> "null", value |-> <<>>]
  /\ reply' = NoReply
  /\ warns' = 0
  /\ UNCHANGED lastIndex
  /\ UNCHANGED dvars

searchExchangeCall ==
  /\ rpc \in {"idle", "done"}
  /\ op' = [NoOp EXCEPT !.name = "searchExchange", !.path = <<"search">>]
  /\ requests' = << <<"assets?search", <<"search">> >> >>
  /\ rpc' = "awaitFetch"
  /\ reply' = NoReply
  /\ result' = NoResult
  /\ warns' = 0
  /\ UNCHANGED lastIndex
  /\ UNCHANGED dvars

Bodies(name) ==
  IF name = "getVersionByDeployment" THEN VersionBodies
  ELSE IF name = "searchExchange" THEN SeqsUpTo(ApiBodies, MaxResults)
  ELSE SpecificBodies

Replies(name) ==
  {[kind |-> k, body |-> <<>>] : k \in {"networkError", "nonOK", "okBadJson"}}
    \cup {[kind |-> "ok", body |-> b] : b \in Bodies(name)}

RegistryReply ==
  /\ rpc = "awaitFetch"
  /\ \E r \in Replies(op.name) :
       /\ reply' = r
       /\ IF op.name = "searchExchange"
          THEN /\ result' = searchExchange(r)
               /\ UNCHANGED <<warns, lastIndex>>
          ELSE LET asset == getAsset(r)
               IN  /\ warns' = warns + asset.warns
                   /\ IF op.name = "getAsset"
                      THEN result' = asset.result /\ UNCHANGED lastIndex
                      ELSE IF op.name = "getSpecificApi"
                      THEN result' = getSpecificApiThen(asset.result) /\ UNCHANGED lastIndex
                      ELSE LET v == getVersionByDeployment(asset.result, op.re, lastIndex[op.re])
                           IN  /\ result' = v.result
                               /\ lastIndex' = [lastIndex EXCEPT ![op.re] = v.lastIndex]
  /\ rpc' = "done"
  /\ UNCHANGED <<op, requests>>
  /\ UNCHANGED dvars

RNext ==
  \/ getAssetCall
  \/ getVersionByDeploymentCall
  \/ getSpecificApiCall
  \/ searchExchangeCall
  \/ RegistryReply

Init == DInit /\ RInit

SpecDownload == Init /\ [][DNext]_vars

SpecRegistry == Init /\ [][RNext]_vars

\* ================================================================== claims
HasId(i) == Truthy(restApi[i].id)

\* download i failed: its fetch or body read failed, or the server answered non-OK
FailedDownload(i) ==
  /\ HasId(i)
  /\ \/ pc[i] = "rejected"
     \/ response[i] # <<>> /\ ~Ok(response[i][1])

PathOf(i) == <<destinationFolder, restApi[i].assetId>>

\* C1: whenever a download of the batch failed (network failure or non-OK
\* status), the settled aggregate is rejected, never resolved.
C1_FailedDownloadFailsAggregate ==
  (aggregate \in {"resolved", "rejected"} /\ \E i \in Tasks : FailedDownload(i))
    => aggregate = "rejected"

\* C2 as stated: once the aggregate has resolved or rejected, every download
\* it started has settled.
C2_SettledOnlyAfterAll ==
  aggregate \in {"resolved", "rejected"} => \A i \in Tasks : Settled(i)

\* C2 amended: the aggregate resolves only after every download has settled,
\* and rejects only after some download has rejected.
C2_ResolvedOnlyAfterAll ==
  /\ aggregate = "resolved" => \A i \in Tasks : Settled(i)
  /\ aggregate = "rejected" => \E i \in Tasks : pc[i] = "rejected"

C2_Witness ==
  /\ aggregate = "resolved"
  /\ Len(restApi) >= 2
  /\ \A i \in Tasks : wrote[i] # {}

\* C3: a batch of N descriptors that all have an id and whose fetches all
\* succeeded resolves to the destination folder with N distinct files written.
C3_NFilesForNDescriptors ==
  (/\ aggregate = "resolved"
   /\ \A i \in Tasks : HasId(i) /\ response[i] = <<200>>)
    => /\ aggregateValue = <<destinationFolder>>
       /\ Cardinality(UNION {wrote[i] : i \in Tasks}) = Len(restApi)
       /\ \A i \in Tasks : files[PathOf(i)] # NoFile

\* C4: a descriptor without id is skipped: no request, no directory, no file,
\* one warning, resolved; and a rejected aggregate always has a rejected
\* download of a descriptor that has an id.
C4_MissingIdIsSkipped ==
  /\ \A i \in Tasks :
       ~HasId(i) => /\ pc[i] = "resolved"
                    /\ warned[i] = 1
                    /\ requested[i] = 0
                    /\ response[i] = <<>>
                    /\ ~ensured[i]
                    /\ wrote[i] = {}
  /\ (\A i \in Tasks : ~HasId(i)) => dirs = dirs0 /\ files = files0
  /\ aggregate = "rejected" => \E j \in Tasks : HasId(j) /\ pc[j] = "rejected"

C4_Witness ==
  /\ aggregate = "resolved"
  /\ \E i \in Tasks : ~HasId(i) /\ warned[i] = 1
  /\ \E j \in Tasks : HasId(j) /\ wrote[j] # {}

\* first instance whose environmentName is non-empty and matches the pattern
MatchingInstances(instances, re) ==
  {k \in DOMAIN instances :
     /\ Len(instances[k].environmentName) > 0
     /\ RegExpTest(re, 0, instances[k].environmentName).matched}

Min(S) == CHOOSE k \in S : \A m \in S : k <= m

Max(S) == CHOOSE k \in S : \A m \in S : m <= k

\* C5: with metadata found, getVersionByDeployment returns the version of the
\* first instance whose environmentName is non-empty and matches, and the
\* asset's own version when no instance matches.
C5_FirstMatchingInstance ==
  (rpc = "done" /\ op.name = "getVersionByDeployment" /\ reply.kind = "ok")
    => LET instances == reply.body.instances
           hits == MatchingInstances(instances, op.re)
       IN  /\ result.kind = "value"
           /\ result.value = IF hits = {} THEN reply.body.version
                             ELSE instances[Min(hits)].version

\* C6: searchExchange returns one descriptor per object of the response, in
\* order, each with fatRaml the last file of classifier "fat-raml", or none.
C6_SearchKeepsOrderLastFatRaml ==
  (rpc = "done" /\ op.name = "searchExchange" /\ reply.kind = "ok")
    => /\ result.kind = "value"
       /\ Len(result.value) = Len(reply.body)
       /\ \A k \in DOMAIN reply.body :
            LET fs == reply.body[k].files
                hits == {j \in DOMAIN fs : fs[j].classifier = "fat-raml"}
            IN  /\ result.value[k].id = reply.body[k].id
                /\ result.value[k].assetId = reply.body[k].assetId
                /\ IF hits = {} THEN result.value[k].fatRaml = <<>>
                   ELSE /\ Len(result.value[k].fatRaml) = 1
                        /\ result.value[k].fatRaml[1].classifier = "fat-raml"
                        /\ result.value[k].fatRaml[1].externalLink = fs[Max(hits)].externalLink

C6_Witness ==
  /\ rpc = "done" /\ op.name = "searchExchange" /\ reply.kind = "ok"
  /\ Len(result.value) = 2
  /\ result.value[1].assetId # result.value[2].assetId
  /\ Len(reply.body[1].files) = 2
  /\ \A j \in 1 .. 2 : reply.body[1].files[j].classifier = "fat-raml"
  /\ result.value[1].fatRaml[1].externalLink = 2
  /\ result.value[2].fatRaml = <<>>

\* C7: on a non-OK status getAsset warns once and returns undefined, and
\* getVersionByDeployment and getSpecificApi return absent, with the one
\* request and no error.
C7_NonOkIsAbsent ==
  (rpc = "done" /\ reply.kind = "nonOK" /\ op.name # "searchExchange")
    => /\ warns = 1
       /\ Len(requests) = 1
       /\ op.name \in {"getAsset", "getVersionByDeployment"} => result.kind = "undefined"
       /\ op.name = "getSpecificApi" => result.kind = "null"

C7_Witness ==
  /\ rpc = "done" /\ reply.kind = "nonOK" /\ op.name = "getSpecificApi"
  /\ result.kind = "null" /\ warns = 1

\* C8: when downloads have resolved, each archive path holds the full body of
\* a download that wrote it (of the one download when it alone wrote there),
\* whatever was there before, and every other file is as it was.
C8_FileHoldsBody ==
  /\ \A i \in Tasks :
       (HasId(i) /\ pc[i] = "resolved")
         => /\ wrote[i] = {PathOf(i)}
            /\ \E j \in Tasks : /\ pc[j] = "resolved" /\ PathOf(i) \in wrote[j]
                                /\ files[PathOf(i)] = Body(j, response[j][1])
            /\ (\A j \in Tasks : j # i => PathOf(i) \notin wrote[j])
                 => files[PathOf(i)] = Body(i, response[i][1])
  /\ \A p \in Paths : (\A i \in Tasks : p \notin wrote[i]) => files[p] = files0[p]

C8_Witness ==
  /\ Len(restApi) = 1 /\ pc[1] = "resolved" /\ HasId(1)
  /\ files0[PathOf(1)] = OldContent
  /\ files[PathOf(1)] = Body(1, response[1][1])

\* C9: getSpecificApi with an empty or absent version returns null at once
\* with no request; it issues a request only when a version is supplied.
C9_NoVersionNoRequest ==
  op.name = "getSpecificApi"
    => /\ Falsy(op.version) => /\ rpc = "done" /\ result.kind = "null"
                               /\ requests = <<>> /\ warns = 0
       /\ requests # <<>> => Truthy(op.version)

C9_Witness ==
  op.name = "getSpecificApi" /\ op.version = "" /\ rpc = "done" /\ result.kind = "null"

\* C10: a descriptor with an id and no fatRaml rejects, with the directory
\* created and no request, file or warning, and its batch never resolves; a
\* download that resolved without writing is always a missing-id skip.
C10_NoFatRamlFails ==
  /\ \A i \in Tasks :
       (HasId(i) /\ restApi[i].fatRaml = <<>>)
         => /\ pc[i] = "rejected"
            /\ ensured[i] /\ destinationFolder \in dirs
            /\ requested[i] = 0 /\ wrote[i] = {} /\ warned[i] = 0
            /\ aggregate \in {"pending", "rejected"}
  /\ \A i \in Tasks : (pc[i] = "resolved" /\ wrote[i] = {}) => ~HasId(i)

C10_Witness ==
  /\ aggregate = "rejected"
  /\ \E i \in Tasks : HasId(i) /\ restApi[i].fatRaml = <<>>
  /\ destinationFolder \notin dirs0 /\ destinationFolder \in dirs
  /\ files = files0
====
